---- MODULE Spec2Model ----
(***************************************************************************)
(* Model of gdb/microblaze-tdep.c: the prologue scanner                    *)
(* (microblaze_analyze_prologue), microblaze_skip_prologue and the frame   *)
(* unwinder callbacks.                                                     *)
(*                                                                         *)
(* Widths.  CORE_ADDR is an unsigned 64-bit integer and the scan-all       *)
(* limit passed by microblaze_skip_prologue is the 32-bit all-ones value.  *)
(* The model keeps both as unsigned wrap-around integers but scales the    *)
(* widths down (AddrBits for CORE_ADDR, TargetBits for the 32-bit target   *)
(* address space) so that the values stay inside the checker's integers.   *)
(* Every address of the modelled target lies below 2^TargetBits.           *)
(***************************************************************************)
EXTENDS Integers, Naturals, Sequences, FiniteSets, TLC

\* ---------------------------------------------------------------- bounds
\* Number of instruction slots of the modelled function.
MaxInsns == 3
\* Number of unwinder queries issued on one frame handle.
MaxCalls == 4
\* Number of microblaze_store_return_value calls.
MaxStores == 2
\* Number of microblaze_gdbarch_init calls.
MaxInits == 2
\* Number of threads reporting, and of calls they make in all.
NThreads == 2
MaxReports == 2
\* Number of Errors::undefined_symbol calls of the sequential study.
MaxUndefined == 6

\* ------------------------------------------------------ program constants
INST_WORD_SIZE == 4
REG_SP == 1
MICROBLAZE_SP_REGNUM == 1
MICROBLAZE_PC_REGNUM == 32
MICROBLAZE_FIRST_ARGREG == 5
MICROBLAZE_NUM_REGS == 59
MICROBLAZE_RETVAL_REGNUM == 3
MICROBLAZE_REGISTER_SIZE == 4
MICROBLAZE_NUM_CORE_REGS == 57
\* dwarf2_to_reg_map[78], of int
Dwarf2MapEntries == 78
SizeofInt == 4
\* Errors::max_undefined_error_report (its value is given in errors.h)
max_undefined_error_report == 5

AddrBits == 12
TargetBits == 8
AddrMod == 2 ^ AddrBits
\* 0xffffffffUL, the current_pc microblaze_skip_prologue passes to the scan
ScanAll == (2 ^ TargetBits) - 1

\* CORE_ADDR arithmetic (unsigned, wraps)
AddrAdd(a, b) == (a + b) % AddrMod
AddrSub(a, b) == (a - b + AddrMod) % AddrMod

\* ------------------------------------------------------ the target program
\* The one function the symbol table may know about.
FuncStart == 2 * INST_WORD_SIZE
FuncEnd == FuncStart + MaxInsns * INST_WORD_SIZE

\* ------------------------------------------------------ instruction words
\* A 32-bit instruction word as its bit fields: opc = bits 31..26,
\* rd = bits 25..21, ra = bits 20..16, low = bits 15..0.
MkWord(opc, rd, ra, low) == [opc |-> opc, rd |-> rd, ra |-> ra, low |-> low]
ZeroWord == MkWord(0, 0, 0, 0)

\* two's complement 16-bit immediate field
Imm16(n) == (n + 65536) % 65536

W_ADDIK_SP(n) == MkWord(12, 1, 1, Imm16(n))       \* addik r1, r1, n
W_SWI(rd, ra, n) == MkWord(62, rd, ra, Imm16(n))  \* swi rd, ra, n
W_SW(rd, ra, rb) == MkWord(54, rd, ra, rb * 2048) \* sw rd, ra, rb
W_ADDK(rd, ra, rb) == MkWord(4, rd, ra, rb * 2048) \* addk rd, ra, rb
W_ADDIK(rd, ra, n) == MkWord(12, rd, ra, Imm16(n)) \* addik rd, ra, n
W_RTSD == MkWord(45, 16, 15, 8)                   \* rtsd r15, 8
W_NOP == MkWord(32, 0, 0, 0)                      \* or r0, r0, r0
W_BRI == MkWord(46, 0, 0, 8)                      \* bri 8

\* The content of an address target_read_code cannot read (no word at all).
Unreadable == [opc |-> -1, rd |-> -1, ra |-> -1, low |-> -1]

\* The contents a code address may have.
Cells ==
  { W_ADDIK_SP(-8), W_ADDIK_SP(-16), W_ADDIK_SP(0),
    W_SWI(15, 1, 4), W_SWI(19, 1, 0), W_SWI(1, 1, 0),
    W_SW(15, 0, 1),
    W_ADDK(19, 1, 0), W_SWI(15, 19, 8),
    W_ADDIK(3, 5, 0),
    W_RTSD, W_NOP, W_BRI,
    Unreadable }

\* The contents of a code address for the study of the control-flow test:
\* one word of each opcode that ends the scan, of 0x2c (imm) and of
\* opcodes next to them, and two prologue instructions.
W_OPC(opc) == MkWord(opc, 0, 0, 0)

CtrlCells ==
  {W_OPC(opc) : opc \in {38, 39, 45, 46, 47, 44, 37, 40, 48, 32}}
  \cup {W_ADDIK_SP(-8), W_SWI(15, 1, 0)}

\* The contents of a code address for the study of the stack adjust:
\* addik and addi on r1 with negative, zero and positive immediates, a
\* spill, a non-stack instruction, a branch and an unreadable address.
W_ADDI_SP(n) == MkWord(8, 1, 1, Imm16(n))         \* addi r1, r1, n

AdjCells ==
  { W_ADDIK_SP(-8), W_ADDIK_SP(0), W_ADDIK_SP(8), W_ADDIK_SP(-32768),
    W_ADDI_SP(-16), W_SWI(15, 1, 4), W_NOP, W_BRI, Unreadable }

\* The contents of a code address for the study of the frame pointer:
\* frame-pointer setups to r19, r20, r1 and r0, stores based on r19, r20, r1
\* and r0, a stack adjust and a non-stack instruction.
FpCells ==
  { W_ADDK(19, 1, 0), W_ADDK(20, 1, 0), W_ADDK(1, 1, 0), W_ADDK(0, 1, 0),
    W_SWI(15, 19, 8), W_SWI(15, 20, 4), W_SWI(15, 1, 4), W_SWI(15, 0, 4),
    W_ADDIK_SP(-8), W_NOP }

\* microblaze_decode_insn: opcode enumerator and operand fields of a word.
DecodeOp(w) ==
  CASE w.opc = 0 /\ w.low % 2048 = 0 -> "add"
    [] w.opc = 4 /\ w.low % 2048 = 0 -> "addk"
    [] w.opc = 8 -> "addi"
    [] w.opc = 12 -> "addik"
    [] w.opc = 54 /\ w.low % 2048 = 0 -> "sw"
    [] w.opc = 62 -> "swi"
    [] w.opc = 45 /\ w.rd = 16 -> "rtsd"
    [] w.opc = 45 /\ w.rd = 17 -> "rtid"
    [] OTHER -> "invalid_inst"

DecodeImm(w) == IF w.low >= 32768 THEN w.low - 65536 ELSE w.low

microblaze_decode_insn(w) ==
  [op |-> DecodeOp(w), rd |-> w.rd, ra |-> w.ra, rb |-> w.low \div 2048,
   imm |-> DecodeImm(w)]

FetchStaleBuffer(cell) ==
  IF cell = Unreadable THEN W_ADDIK_SP(-8) ELSE cell

\* microblaze_fetch_instruction: an unreadable address reads as zero.
microblaze_fetch_instruction(cell) ==
  IF cell = Unreadable THEN ZeroWord ELSE cell

\* ------------------------------------------------- classification macros
IsReturnRtidOnly(op) == op = "rtid"

IS_RETURN(op) == op = "rtsd" \/ op = "rtid"

IsUpdateSpAddikOnly(op, rd, ra) ==
  op = "addik" /\ rd = REG_SP /\ ra = REG_SP

IS_UPDATE_SP(op, rd, ra) ==
  (op = "addik" \/ op = "addi") /\ rd = REG_SP /\ ra = REG_SP

IS_SPILL_SP(op, rd, ra) ==
  (op = "swi" \/ op = "sw") /\ rd = REG_SP /\ ra = REG_SP

IS_SPILL_REG(op, rd, ra) ==
  (op = "swi" \/ op = "sw") /\ rd # REG_SP /\ ra = REG_SP

IS_ALSO_SPILL_REG(op, rd, ra, rb) ==
  (op = "swi" \/ op = "sw") /\ rd # REG_SP /\ ra = 0 /\ rb = REG_SP

IS_SETUP_FP(op, ra, rb) ==
  (op = "add" \/ op = "addik" \/ op = "addk") /\ ra = REG_SP /\ rb = 0

IsSpillRegAnyBase(op, rd, ra, fpregnum) ==
  (op = "swi" \/ op = "sw") /\ rd # REG_SP /\ ra # 0

IS_SPILL_REG_FP(op, rd, ra, fpregnum) ==
  (op = "swi" \/ op = "sw") /\ rd # REG_SP /\ ra = fpregnum /\ ra # 0

IS_SAVE_HIDDEN_PTR(op, rd, ra, rb) ==
  (op = "add" \/ op = "addik") /\ ra = MICROBLAZE_FIRST_ARGREG /\ rb = 0

\* The branch of the scan loop an instruction takes, in the order of the
\* if / else-if chain.
Classify(d, fpregnum) ==
  IF IS_UPDATE_SP(d.op, d.rd, d.ra) THEN "update_sp"
  ELSE IF IS_SPILL_SP(d.op, d.rd, d.ra) THEN "spill_sp"
  ELSE IF IS_SPILL_REG(d.op, d.rd, d.ra) THEN "spill_reg"
  ELSE IF IS_ALSO_SPILL_REG(d.op, d.rd, d.ra, d.rb) THEN "also_spill_reg"
  ELSE IF IS_SETUP_FP(d.op, d.ra, d.rb) THEN "setup_fp"
  ELSE IF IS_SPILL_REG_FP(d.op, d.rd, d.ra, fpregnum) THEN "spill_reg_fp"
  ELSE IF IS_SAVE_HIDDEN_PTR(d.op, d.rd, d.ra, d.rb) THEN "save_hidden_ptr"
  ELSE "other"

\* ctrl_op = (unsigned) insn >> 26
CtrlOp(w) == w.opc

\* The control-flow test that ends the loop body: TRUE when the scan breaks
\* at a non-prologue instruction whose top six bits are ctrl_op.
StopsScanAnyBranch(ctrl_op) == ctrl_op >= 38 /\ ctrl_op <= 47

StopsScan(ctrl_op) ==
  IF ctrl_op # 38 /\ ctrl_op # 39 /\ ctrl_op # 45 /\ ctrl_op # 46 /\ ctrl_op # 47
  THEN FALSE
  ELSE IF ctrl_op = 44 THEN FALSE
  ELSE TRUE

FrameSizeNeverComputed(framesize) == FALSE

\* if (cache->framesize) break;
FrameSizeComputed(framesize) == framesize # 0

\* cache->framesize = -imm
FrameSizeOf(imm) == 0 - imm

SpillOffsetNoFrame(imm, framesize) == imm

\* cache->register_offsets[rd] = imm - cache->framesize
SpillOffset(imm, framesize) == imm - framesize

StopAddrFuncEnd(cpc, fend) == fend

\* stop = (current_pc < func_end ? current_pc : func_end)
StopAddr(cpc, fend) == IF cpc < fend THEN cpc ELSE fend

NextAddrStuck(a) == a

\* addr += INST_WORD_SIZE
NextAddr(a) == AddrAdd(a, INST_WORD_SIZE)

\* if (save_hidden_pointer_found) prologue_end_addr -= INST_WORD_SIZE;
PrologueEnd(pea, shp) == IF shp = 1 THEN AddrSub(pea, INST_WORD_SIZE) ELSE pea

\* find_pc_partial_function: the bounds of the function containing a, or
\* failure with both bounds zero.
find_pc_partial_function(sym, a) ==
  IF sym /\ a >= FuncStart /\ a < FuncEnd
  THEN [found |-> TRUE, start |-> FuncStart, end |-> FuncEnd]
  ELSE [found |-> FALSE, start |-> 0, end |-> 0]

\* if (sal.end < func_end && start_pc <= sal.end) start_pc = sal.end;
LineTableStart(found, sal, fend, spc) ==
  IF found /\ sal < fend /\ spc <= sal THEN sal ELSE spc

SkipResultStart(ostart, spc) == spc

\* if (ostart_pc > start_pc) return ostart_pc; return start_pc;
SkipResult(ostart, spc) == IF ostart > spc THEN ostart ELSE spc

\* ------------------------------------------------------------------ state
Regs == 0 .. (MICROBLAZE_NUM_REGS - 1)

\* struct microblaze_frame_cache as the scanner sees it
MkCache(fs, fp, fl, offs) ==
  [framesize |-> fs, fp_regnum |-> fp, frameless_p |-> fl,
   register_offsets |-> offs]

\* What the cache handed to the scanner may hold before the call: a cleared
\* one, or the uninitialized automatic variable of microblaze_skip_prologue.
CacheInits ==
  { MkCache(0, MICROBLAZE_SP_REGNUM, 1, [r \in Regs |-> -1]),
    MkCache(12, 19, 0, [r \in Regs |-> 7]) }

\* Requested program counters of a direct scan.
CurrentPcs ==
  {FuncStart - INST_WORD_SIZE, FuncStart + INST_WORD_SIZE + 2}
    \cup {FuncStart + k * INST_WORD_SIZE : k \in 0 .. (MaxInsns + 1)}

\* Entry addresses handed to the scanner and to microblaze_skip_prologue.
StartPcs == {FuncStart, FuncStart + 2 * INST_WORD_SIZE}

\* Line-table answers (sal.end).
SalEnds == {FuncStart + INST_WORD_SIZE, FuncEnd, FuncEnd + INST_WORD_SIZE}

VARIABLES
  phase,          \* position: "idle", "entry", "loop", "post", "done", "returned"
  caller,         \* "none", "direct" or "skip"
  has_symbol,     \* whether the symbol table knows the function
  cells,          \* the contents the code addresses of the target may have
  mem,            \* code memory, as far as it has been read
  pc, current_pc, func_addr, func_end, addr, stop,
  cache, prologue_end_addr,
  save_hidden_pointer_found, non_stack_instruction_found,
  ret,            \* value returned by microblaze_analyze_prologue
  start_pc,       \* microblaze_skip_prologue: start_pc (as given, current)
  skip_ret,       \* value returned by microblaze_skip_prologue
  fetches,        \* history: every fetch, as [site, at]
  kinds,          \* history: the branch taken by each loop iteration
  adjusts,        \* history: immediates of the processed stack adjusts
  broke,          \* history: the loop was left by a break
  tentative_set,  \* history: prologue_end_addr was assigned in the loop
  cache0          \* history: the cache as passed in

\* ------------------------------------------------------- frame unwinder
VARIABLES
  this_cache,     \* the frame's cache slot (*this_cache): NoCache or a cache
  frame_pc,       \* get_frame_address_in_block of the frame
  queries,        \* history: the unwinder queries made on the frame handle
  allocs,         \* history: number of frame caches allocated
  scans           \* history: runs of the prologue scanner for the frame

framevars == <<this_cache, frame_pc, queries, allocs, scans>>

\* ------------------------------------------------- return-value adapter
VARIABLES
  regcache,       \* the registers of the return-value convention
  valbuf,         \* readbuf of the last microblaze_return_value call
  stored,         \* history: the last value stored, as [len, val]
  stores,         \* history: the number of values stored
  abi_last        \* history: the last call of the adapter and its outcome

abivars == <<regcache, valbuf, stored, stores, abi_last>>

\* ------------------------------------------- register map, pc, gdbarch
VARIABLES
  dw_last,        \* the last call of microblaze_dwarf2_reg_to_regnum
  unw_last,       \* the last call of microblaze_unwind_pc
  arches,         \* the target descriptions that have an architecture
  inits,          \* history: the number of microblaze_gdbarch_init calls
  arch_last       \* the last call of microblaze_gdbarch_init

dwvars == <<dw_last>>
unwvars == <<unw_last>>
archvars == <<arches, inits, arch_last>>

\* ------------------------------------------------------ gold: class Errors
VARIABLES
  threads,             \* the threads that report
  quota,               \* the number of calls the threads make in all
  opset,               \* the member functions they call
  lock_,               \* Errors::lock_: 0 for NULL, else the Lock
  locks_made,          \* history: the number of Locks created
  holder,              \* for each Lock the thread holding it, 0 for none
  th,                  \* each thread's position in its call
  error_count_,
  warning_count_,
  undefined_symbols_,
  ncalls,              \* history: the number of calls begun
  errors_reported,     \* history: error messages of the calls returned
  warnings_reported,   \* history: warning messages of the calls returned
  undef_calls,         \* history: undefined_symbol calls returned, per symbol
  undef_printed        \* history: those that printed a message, per symbol

errvars ==
  <<threads, quota, opset, lock_, locks_made, holder, th, error_count_,
    warning_count_, undefined_symbols_, ncalls, errors_reported,
    warnings_reported, undef_calls, undef_printed>>

restvars == <<abivars, dwvars, unwvars, archvars, errvars>>

scanvars ==
  <<phase, caller, has_symbol, cells, mem, pc, current_pc, func_addr, func_end, addr,
    stop, cache, prologue_end_addr, save_hidden_pointer_found,
    non_stack_instruction_found, ret, start_pc, skip_ret, fetches, kinds,
    adjusts, broke, tentative_set, cache0>>

vars == <<scanvars, framevars, restvars>>

NoAddr == -1

\* A null cache slot.
NoCache == [null |-> TRUE]

\* A frame identity that has not been assigned.
NoId == [stack_addr |-> -1, code_addr |-> -1]

frame_id_build(base, fpc) == [stack_addr |-> base, code_addr |-> fpc]

\* Addresses in block of the frames queried, and the registers asked for.
FramePcs == {0} \cup {FuncStart + k * INST_WORD_SIZE : k \in 0 .. MaxInsns}
RegQueries == {0, MICROBLAZE_SP_REGNUM, 3, 15, MICROBLAZE_PC_REGNUM}

\* microblaze_alloc_frame_cache: a zeroed cache, frameless.
AllocFrameCacheFramed ==
  [null |-> FALSE, base |-> 0, pc |-> 0, framesize |-> 0, fp_regnum |-> 0,
   frameless_p |-> 0, register_offsets |-> [r \in Regs |-> 0],
   saved_regs |-> FALSE]

microblaze_alloc_frame_cache ==
  [null |-> FALSE, base |-> 0, pc |-> 0, framesize |-> 0, fp_regnum |-> 0,
   frameless_p |-> 1, register_offsets |-> [r \in Regs |-> 0],
   saved_regs |-> FALSE]

\* microblaze_frame_cache: the cache in the slot, or a new one.
FrameCacheNoClear(slot, fpc) ==
  IF ~slot.null THEN slot
  ELSE [microblaze_alloc_frame_cache EXCEPT !.saved_regs = TRUE, !.pc = fpc]

microblaze_frame_cache(slot, fpc) ==
  IF ~slot.null THEN slot
  ELSE [microblaze_alloc_frame_cache EXCEPT
          !.saved_regs = TRUE,
          !.register_offsets = [r \in Regs |-> -1],
          !.pc = fpc]

\* microblaze_frame_this_id: the value of *this_id after the call, given its
\* value before.
FrameThisIdNoSentinel(c, id) == frame_id_build(c.base, c.pc)

microblaze_frame_this_id(c, id) ==
  IF c.base = 0 THEN id ELSE frame_id_build(c.base, c.pc)

\* microblaze_frame_prev_register: the register handed to
\* trad_frame_get_prev_register.
PrevRegisterNoRedirect(c, regnum) == regnum

microblaze_frame_prev_register(c, regnum) ==
  IF c.frameless_p # 0
  THEN LET r1 == IF regnum = MICROBLAZE_PC_REGNUM THEN 15 ELSE regnum
       IN IF r1 = MICROBLAZE_SP_REGNUM THEN 1 ELSE r1
  ELSE regnum

\* microblaze_frame_base_address
microblaze_frame_base_address(c) == c.base

Query(op, regnum, lookup, id, base) ==
  [op |-> op, regnum |-> regnum, lookup |-> lookup, id |-> id, base |-> base]

\* ------------------------------------------------- return-value adapter
\* Byte values of the return values tried, and of the registers beforehand.
ByteVals == {1, 2}
RegInitBytes == {9, 0}

\* The two registers of the convention: r3 and r4.
RetRegs == {MICROBLAZE_RETVAL_REGNUM, MICROBLAZE_RETVAL_REGNUM + 1}

\* Type lengths asked for.
TypeLens == 0 .. 9
SupportedLens == {1, 2, 4, 8}

\* The byte strings of length len handed to the store; every string for the
\* lengths the convention knows, one for each of the others.
ByteStrings(len) ==
  IF len \in SupportedLens THEN [1 .. len -> ByteVals] ELSE {[i \in 1 .. len |-> 1]}

\* gdb_byte buf[8] after memset (buf, 0, sizeof (buf))
ZeroBuf == [i \in 1 .. 8 |-> 0]

\* memcpy (dst + at, src, Len (src)), dst and src as byte sequences
Memcpy(dst, at, src) ==
  [i \in 1 .. Len(dst) |->
     IF i > at /\ i <= at + Len(src) THEN src[i - at] ELSE dst[i]]

ExtractFirstBytes(len, rc, vb) ==
  IF len \in SupportedLens
  THEN [outcome |-> "ok",
        valbuf |-> SubSeq(rc[MICROBLAZE_RETVAL_REGNUM]
                            \o rc[MICROBLAZE_RETVAL_REGNUM + 1], 1, len)]
  ELSE [outcome |-> "internal_error", valbuf |-> vb]

\* microblaze_extract_return_value: the outcome and the output buffer after
\* the call, for a type of length len, registers rc and output buffer vb.
microblaze_extract_return_value(len, rc, vb) ==
  LET r3 == rc[MICROBLAZE_RETVAL_REGNUM]
      r4 == rc[MICROBLAZE_RETVAL_REGNUM + 1]
  IN CASE len = 1 ->
            [outcome |-> "ok",
             valbuf |-> SubSeq(r3, MICROBLAZE_REGISTER_SIZE,
                               MICROBLAZE_REGISTER_SIZE)]
       [] len = 2 ->
            [outcome |-> "ok",
             valbuf |-> SubSeq(r3, MICROBLAZE_REGISTER_SIZE - 1,
                               MICROBLAZE_REGISTER_SIZE)]
       [] len = 4 \/ len = 8 ->
            [outcome |-> "ok", valbuf |-> SubSeq(r3 \o r4, 1, len)]
       [] OTHER -> [outcome |-> "internal_error", valbuf |-> vb]

StoreLeftJustified(len, v, rc) ==
  IF len > 4
  THEN IF len # 8
       THEN [outcome |-> "assert_fail", regcache |-> rc]
       ELSE [outcome |-> "ok",
             regcache |-> [rc EXCEPT ![MICROBLAZE_RETVAL_REGNUM + 1] = SubSeq(v, 5, 8),
                                     ![MICROBLAZE_RETVAL_REGNUM] = SubSeq(v, 1, 4)]]
  ELSE [outcome |-> "ok",
        regcache |-> [rc EXCEPT ![MICROBLAZE_RETVAL_REGNUM] =
                        SubSeq(Memcpy(ZeroBuf, 0, v), 1, 4)]]

StoreTruncating(len, v, rc) ==
  LET buf == IF len > 4
             THEN Memcpy(ZeroBuf, 0, SubSeq(v, 1, IF len < 8 THEN len ELSE 8))
             ELSE Memcpy(ZeroBuf, 4 - len, v)
  IN [outcome |-> "ok",
      regcache |-> [rc EXCEPT
         ![MICROBLAZE_RETVAL_REGNUM + 1] =
            IF len > 4 THEN SubSeq(buf, 5, 8) ELSE @,
         ![MICROBLAZE_RETVAL_REGNUM] = SubSeq(buf, 1, 4)]]

\* microblaze_store_return_value: the outcome and the registers after the
\* call, for a value v of a type of length len and registers rc.
microblaze_store_return_value(len, v, rc) ==
  IF len > 4
  THEN IF len # 8
       THEN [outcome |-> "assert_fail", regcache |-> rc]
       ELSE LET buf == Memcpy(ZeroBuf, 0, v)
            IN [outcome |-> "ok",
                regcache |-> [rc EXCEPT
                   ![MICROBLAZE_RETVAL_REGNUM + 1] = SubSeq(buf, 5, 8),
                   ![MICROBLAZE_RETVAL_REGNUM] = SubSeq(buf, 1, 4)]]
  ELSE LET buf == Memcpy(ZeroBuf, 4 - len, v)
       IN [outcome |-> "ok",
           regcache |-> [rc EXCEPT
              ![MICROBLAZE_RETVAL_REGNUM] = SubSeq(buf, 1, 4)]]

\* The read buffer a caller hands in: len bytes of earlier content.
ReadBuf(len) == [i \in 1 .. len |-> 7]

NoStore == [len |-> -1, val |-> <<>>]
AbiCall(op, len, outcome) == [op |-> op, len |-> len, outcome |-> outcome]

\* The adapter when it is not the component under study.
AbiIdle ==
  /\ regcache = [r \in RetRegs |-> [i \in 1 .. MICROBLAZE_REGISTER_SIZE |-> 0]]
  /\ valbuf = <<>>
  /\ stored = NoStore
  /\ stores = 0
  /\ abi_last = AbiCall("none", -1, "none")

\* ------------------------------------------------------- register map
\* dwarf2_to_reg_map, as a function on 0 .. 77.
dwarf2_to_reg_map ==
  [i \in 0 .. Dwarf2MapEntries - 1 |->
     IF i <= 31 THEN i ELSE IF i = 67 THEN 33 ELSE -1]

\* sizeof (dwarf2_to_reg_map), in bytes.
SizeofDwarf2Map == Dwarf2MapEntries * SizeofInt

\* The standardized register numbers asked for.
DwarfRegs == -3 .. SizeofDwarf2Map + 2

\* What a read beyond the end of dwarf2_to_reg_map may give.
BeyondMap == {-1, 0, 5}

DwarfCall(reg, result, oob) ==
  [called |-> TRUE, reg |-> reg, result |-> result, oob |-> oob]

\* microblaze_dwarf2_reg_to_regnum: the calls it can make of reg, each with
\* its result and whether it read beyond the table.
microblaze_dwarf2_reg_to_regnum(reg) ==
  IF reg >= 0 /\ reg < SizeofDwarf2Map
  THEN IF reg \in DOMAIN dwarf2_to_reg_map
       THEN {DwarfCall(reg, dwarf2_to_reg_map[reg], FALSE)}
       ELSE {DwarfCall(reg, g, TRUE) : g \in BeyondMap}
  ELSE {DwarfCall(reg, -1, FALSE)}

DwarfIdle ==
  dw_last = [called |-> FALSE, reg |-> 0, result |-> 0, oob |-> FALSE]

\* ------------------------------------------------------------ unwind pc
\* frame_relative_level of the frames unwound from; -1 is the sentinel.
FrameLevels == -1 .. 2

\* The values frame_unwind_register gives for the pc register.
RawPcs ==
  {a \in 0 .. ScanAll : a % INST_WORD_SIZE = 0} \cup {AddrMod - INST_WORD_SIZE}

UnwindPcSkipInnermost(level, raw) ==
  IF level > 0 THEN AddrAdd(raw, 8) ELSE raw

\* microblaze_unwind_pc
microblaze_unwind_pc(level, raw) ==
  IF level >= 0 THEN AddrAdd(raw, 8) ELSE raw

UnwindCall(level, raw, unwound) ==
  [called |-> TRUE, level |-> level, raw |-> raw, pc |-> unwound]

UnwindIdle ==
  unw_last = [called |-> FALSE, level |-> 0, raw |-> 0, pc |-> 0]

\* ----------------------------------------------------------- gdbarch init
\* A target description: whether it has registers, whether it has the core
\* feature, the core registers that fail tdesc_numbered_register, whether it
\* has the stack-protect feature and whether rslr and rshr pass.
Tdesc(regs, core, bad, sp, slr, shr) ==
  [null |-> FALSE, has_registers |-> regs, core |-> core, core_bad |-> bad,
   stack_protect |-> sp, rslr_ok |-> slr, rshr_ok |-> shr]

NullTdesc ==
  [null |-> TRUE, has_registers |-> FALSE, core |-> FALSE, core_bad |-> {},
   stack_protect |-> FALSE, rslr_ok |-> FALSE, rshr_ok |-> FALSE]

\* tdesc_microblaze, the description used when info.target_desc is NULL.
tdesc_microblaze == Tdesc(TRUE, TRUE, {}, FALSE, FALSE, FALSE)

CoreBadSets == {{}, {0}, {MICROBLAZE_NUM_CORE_REGS - 1}, {5, 32}}

Tdescs ==
  {NullTdesc, Tdesc(FALSE, FALSE, {}, FALSE, FALSE, FALSE)}
  \cup {Tdesc(TRUE, core, bad, sp, slr, shr) :
          core \in BOOLEAN, bad \in CoreBadSets, sp \in BOOLEAN,
          slr \in BOOLEAN, shr \in BOOLEAN}

\* valid_p at the test of line 681: set to 1 again in the stack-protect branch.
ValidP(t) ==
  IF t.stack_protect
  THEN t.rslr_ok /\ t.rshr_ok
  ELSE \A i \in 0 .. MICROBLAZE_NUM_CORE_REGS - 1 : i \notin t.core_bad

\* microblaze_gdbarch_init: "existing", "NULL" or "new" for info.target_desc
\* t and the list of candidates.
microblaze_gdbarch_init(t, candidates) ==
  LET tdesc == IF t.null THEN tdesc_microblaze ELSE t
  IN IF t \in candidates THEN "existing"
     ELSE IF tdesc.has_registers
          THEN IF ~tdesc.core THEN "NULL"
               ELSE IF ~ValidP(tdesc) THEN "NULL" ELSE "new"
          ELSE "new"

ArchCall(t, result) == [called |-> TRUE, tdesc |-> t, result |-> result]

ArchIdle ==
  /\ arches = {}
  /\ inits = 0
  /\ arch_last = [called |-> FALSE, tdesc |-> NullTdesc, result |-> "none"]

\* ------------------------------------------------------ gold: class Errors
Threads == 1 .. NThreads
LockIds == 1 .. NThreads
Syms == {"a", "b"}

\* A call: the member function and, for undefined_symbol, the symbol.
\* "error" stands for Errors::error and Errors::error_at_location, "warning"
\* for Errors::warning and Errors::warning_at_location.
Calls ==
  {[fn |-> "error", sym |-> "none"], [fn |-> "warning", sym |-> "none"]}
  \cup {[fn |-> "undefined_symbol", sym |-> s] : s \in Syms}

UndefinedCalls == {c \in Calls : c.fn = "undefined_symbol"}

\* A thread outside any call.
ThreadIdle ==
  [pc |-> "idle", fn |-> "none", sym |-> "none", tmp |-> 0, lock |-> 0,
   report |-> TRUE]

SuppressAboveMax(count) == count > max_undefined_error_report

\* if (++this->undefined_symbols_[sym] >= max_undefined_error_report) return;
SuppressUndefined(count) == count >= max_undefined_error_report

\* Errors::Errors, for the given threads, number of calls and functions.
ErrorsStart(ts, q, ops) ==
  /\ threads = ts
  /\ quota = q
  /\ opset = ops
  /\ lock_ = 0
  /\ locks_made = 0
  /\ holder = [l \in LockIds |-> 0]
  /\ th = [t \in Threads |-> ThreadIdle]
  /\ error_count_ = 0
  /\ warning_count_ = 0
  /\ undefined_symbols_ = [s \in Syms |-> 0]
  /\ ncalls = 0
  /\ errors_reported = 0
  /\ warnings_reported = 0
  /\ undef_calls = [s \in Syms |-> 0]
  /\ undef_printed = [s \in Syms |-> 0]

ErrorsIdle == ErrorsStart({}, 0, {})

RestIdle == AbiIdle /\ DwarfIdle /\ UnwindIdle /\ ArchIdle /\ ErrorsIdle

\* The scanner before any call, over code memory drawn from alphabet.
ScanStart(alphabet) ==
  /\ phase = "idle"
  /\ caller = "none"
  /\ has_symbol \in BOOLEAN
  /\ cells = alphabet
  /\ mem = <<>>
  /\ pc = 0 /\ current_pc = 0 /\ func_addr = 0 /\ func_end = 0
  /\ addr = 0 /\ stop = 0
  /\ cache \in CacheInits
  /\ cache0 = cache
  /\ prologue_end_addr = 0
  /\ save_hidden_pointer_found = 0
  /\ non_stack_instruction_found = 0
  /\ ret = NoAddr
  /\ start_pc = [given |-> NoAddr, cur |-> NoAddr]
  /\ skip_ret = NoAddr
  /\ fetches = {}
  /\ kinds = <<>>
  /\ adjusts = <<>>
  /\ broke = FALSE
  /\ tentative_set = FALSE

\* The scanner when it is not the component under study.
ScanIdle ==
  /\ phase = "idle"
  /\ caller = "none"
  /\ has_symbol = TRUE
  /\ cells = {}
  /\ mem = <<>>
  /\ pc = 0 /\ current_pc = 0 /\ func_addr = 0 /\ func_end = 0
  /\ addr = 0 /\ stop = 0
  /\ cache = MkCache(0, MICROBLAZE_SP_REGNUM, 1, [r \in Regs |-> -1])
  /\ cache0 = cache
  /\ prologue_end_addr = 0
  /\ save_hidden_pointer_found = 0
  /\ non_stack_instruction_found = 0
  /\ ret = NoAddr
  /\ start_pc = [given |-> NoAddr, cur |-> NoAddr]
  /\ skip_ret = NoAddr
  /\ fetches = {}
  /\ kinds = <<>>
  /\ adjusts = <<>>
  /\ broke = FALSE
  /\ tentative_set = FALSE

\* The frame unwinder when it is not the component under study.
FrameIdle ==
  /\ this_cache = NoCache
  /\ frame_pc = 0
  /\ queries = <<>>
  /\ allocs = 0
  /\ scans = 0

InitScan == ScanStart(Cells) /\ FrameIdle /\ RestIdle

\* Reading address a: the cell already seen there, or a fresh one c.
Reveal(a, c) ==
  IF a \in DOMAIN mem THEN mem
  ELSE [x \in (DOMAIN mem) \cup {a} |-> IF x = a THEN c ELSE mem[x]]

\* microblaze_analyze_prologue, up to the initialization of the cache
\* (find_pc_partial_function, the two early tests, the three stores).
AnalyzeBegin(p, cpc) ==
  LET f == find_pc_partial_function(has_symbol, p)
      p2 == IF f.start < p THEN f.start ELSE p
  IN /\ func_addr' = f.start
     /\ func_end' = f.end
     /\ pc' = p2
     /\ current_pc' = cpc
     /\ IF cpc < p2
        THEN /\ ret' = cpc
             /\ phase' = "done"
             /\ cache' = cache
        ELSE /\ ret' = ret
             /\ phase' = "entry"
             /\ cache' = [cache EXCEPT !.framesize = 0,
                                       !.fp_regnum = MICROBLAZE_SP_REGNUM,
                                       !.frameless_p = 1]
     /\ UNCHANGED <<has_symbol, cells, mem, addr, stop, prologue_end_addr,
                    save_hidden_pointer_found, non_stack_instruction_found,
                    skip_ret, fetches, kinds, adjusts, broke, tentative_set,
                    cache0, framevars, restvars>>

\* A direct call microblaze_analyze_prologue (gdbarch, p, cpc, cache).
CallAnalyze ==
  /\ phase = "idle"
  /\ \E p \in StartPcs, cpc \in CurrentPcs :
       /\ caller' = "direct"
       /\ start_pc' = start_pc
       /\ AnalyzeBegin(p, cpc)

\* microblaze_skip_prologue up to and including its call of the scanner.
CallSkip ==
  /\ phase = "idle"
  /\ \E spc \in StartPcs, sal \in SalEnds :
       LET f == find_pc_partial_function(has_symbol, spc)
       IN /\ caller' = "skip"
          /\ start_pc' = [given |-> spc,
                          cur |-> LineTableStart(f.found, sal, f.end, spc)]
          /\ AnalyzeBegin(f.start, ScanAll)

\* The fetch of the first instruction and the IS_RETURN test.
EntryCheck ==
  /\ phase = "entry"
  /\ \E c \in cells :
       LET m2 == Reveal(pc, c)
           d == microblaze_decode_insn(microblaze_fetch_instruction(m2[pc]))
       IN /\ mem' = m2
          /\ fetches' = fetches \cup {[site |-> "entry", at |-> pc]}
          /\ IF IS_RETURN(d.op)
             THEN /\ ret' = pc
                  /\ phase' = "done"
                  /\ UNCHANGED <<stop, addr>>
             ELSE /\ stop' = StopAddr(current_pc, func_end)
                  /\ addr' = func_addr
                  /\ phase' = "loop"
                  /\ ret' = ret
  /\ UNCHANGED <<caller, has_symbol, cells, pc, current_pc, func_addr, func_end,
                 cache, prologue_end_addr, save_hidden_pointer_found,
                 non_stack_instruction_found, start_pc, skip_ret, kinds,
                 adjusts, broke, tentative_set, cache0, framevars, restvars>>

\* The loop condition fails: addr < stop is false.
LoopExit ==
  /\ phase = "loop"
  /\ ~(addr < stop)
  /\ phase' = "post"
  /\ UNCHANGED <<caller, has_symbol, cells, mem, pc, current_pc, func_addr, func_end,
                 addr, stop, cache, prologue_end_addr,
                 save_hidden_pointer_found, non_stack_instruction_found, ret,
                 start_pc, skip_ret, fetches, kinds, adjusts, broke,
                 tentative_set, cache0, framevars, restvars>>

\* The flag updates shared by every recognized prologue instruction but the
\* stack adjust: if (!cache->framesize) non_stack_instruction_found = 0.
KeepAlways(nsf, framesize) == nsf

KeepOrClear(nsf, framesize) == IF framesize = 0 THEN 0 ELSE nsf

\* One iteration of the scan loop.
LoopIter ==
  /\ phase = "loop"
  /\ addr < stop
  /\ \E c \in cells :
       LET m2 == Reveal(addr, c)
           w == microblaze_fetch_instruction(m2[addr])
           d == microblaze_decode_insn(w)
           k == Classify(d, cache.fp_regnum)
           brk == \/ k = "update_sp" /\ FrameSizeComputed(cache.framesize)
                  \/ k = "other" /\ StopsScan(CtrlOp(w))
           storing == k \in {"spill_sp", "spill_reg", "also_spill_reg",
                             "spill_reg_fp"}
           off == CASE k = "spill_sp" -> d.imm
                    [] k = "spill_reg" -> SpillOffset(d.imm, cache.framesize)
                    [] k = "also_spill_reg" -> SpillOffset(0, cache.framesize)
                    [] k = "spill_reg_fp" -> SpillOffset(d.imm, cache.framesize)
                    [] OTHER -> 0
       IN /\ mem' = m2
          /\ fetches' = fetches \cup {[site |-> "loop", at |-> addr]}
          /\ kinds' = Append(kinds, k)
          /\ broke' = brk
          /\ phase' = IF brk THEN "post" ELSE "loop"
          /\ addr' = IF brk THEN addr ELSE NextAddr(addr)
          /\ cache' =
               IF k = "update_sp" /\ ~brk
               THEN [cache EXCEPT !.framesize = FrameSizeOf(d.imm),
                                  !.frameless_p = 0]
               ELSE IF storing
               THEN [cache EXCEPT !.register_offsets[d.rd] = off]
               ELSE IF k = "setup_fp"
               THEN [cache EXCEPT !.fp_regnum = d.rd]
               ELSE cache
          /\ adjusts' = IF k = "update_sp" /\ ~brk
                        THEN Append(adjusts, d.imm) ELSE adjusts
          /\ save_hidden_pointer_found' =
               IF k = "other" \/ (k = "update_sp" /\ brk)
               THEN save_hidden_pointer_found
               ELSE IF k = "save_hidden_ptr" THEN 1 ELSE 0
          /\ non_stack_instruction_found' =
               IF k = "other" THEN 1
               ELSE IF k = "update_sp"
               THEN (IF brk THEN non_stack_instruction_found ELSE 0)
               ELSE KeepOrClear(non_stack_instruction_found, cache.framesize)
          /\ prologue_end_addr' =
               IF k = "other" /\ non_stack_instruction_found = 0
               THEN addr ELSE prologue_end_addr
          /\ tentative_set' =
               (tentative_set \/ (k = "other" /\ non_stack_instruction_found = 0))
  /\ UNCHANGED <<caller, has_symbol, cells, pc, current_pc, func_addr, func_end,
                 stop, ret, start_pc, skip_ret, cache0, framevars, restvars>>

\* After the loop: the hidden-pointer retraction and the return.
PostLoop ==
  /\ phase = "post"
  /\ prologue_end_addr' =
       PrologueEnd(prologue_end_addr, save_hidden_pointer_found)
  /\ ret' = prologue_end_addr'
  /\ phase' = "done"
  /\ UNCHANGED <<caller, has_symbol, cells, mem, pc, current_pc, func_addr, func_end,
                 addr, stop, cache, save_hidden_pointer_found,
                 non_stack_instruction_found, start_pc, skip_ret, fetches,
                 kinds, adjusts, broke, tentative_set, cache0, framevars, restvars>>

\* microblaze_skip_prologue after the scanner has returned.
SkipReturn ==
  /\ phase = "done"
  /\ caller = "skip"
  /\ skip_ret' = SkipResult(ret, start_pc.cur)
  /\ phase' = "returned"
  /\ UNCHANGED <<caller, has_symbol, cells, mem, pc, current_pc, func_addr, func_end,
                 addr, stop, cache, prologue_end_addr,
                 save_hidden_pointer_found, non_stack_instruction_found, ret,
                 start_pc, fetches, kinds, adjusts, broke, tentative_set,
                 cache0, framevars, restvars>>

Next ==
  \/ CallAnalyze
  \/ CallSkip
  \/ EntryCheck
  \/ LoopExit
  \/ LoopIter
  \/ PostLoop
  \/ SkipReturn

Spec == InitScan /\ [][Next]_vars

\* The scanner over code of control-flow and other non-prologue words.
InitCtrl == ScanStart(CtrlCells) /\ FrameIdle /\ RestIdle

SpecCtrl == InitCtrl /\ [][Next]_vars

\* The scanner over code of stack adjusts of either sign.
InitAdj == ScanStart(AdjCells) /\ FrameIdle /\ RestIdle

SpecAdj == InitAdj /\ [][Next]_vars

\* The scanner over code of frame-pointer setups and stores.
InitFp == ScanStart(FpCells) /\ FrameIdle /\ RestIdle

SpecFp == InitFp /\ [][Next]_vars

\* ---------------------------------------------- frame unwinder behaviour
InitFrame ==
  /\ this_cache = NoCache
  /\ frame_pc \in FramePcs
  /\ queries = <<>>
  /\ allocs = 0
  /\ scans = 0
  /\ ScanIdle
  /\ RestIdle

\* The call of microblaze_frame_cache every callback starts with.
GetCache ==
  /\ this_cache' = microblaze_frame_cache(this_cache, frame_pc)
  /\ allocs' = IF this_cache.null THEN allocs + 1 ELSE allocs
  /\ frame_pc' = frame_pc
  /\ scans' = scans

FrameThisId ==
  /\ Len(queries) < MaxCalls
  /\ GetCache
  /\ queries' = Append(queries,
       Query("this_id", -1, -1,
             microblaze_frame_this_id(this_cache', NoId), -1))
  /\ UNCHANGED <<scanvars, restvars>>

FramePrevRegister ==
  /\ Len(queries) < MaxCalls
  /\ GetCache
  /\ \E regnum \in RegQueries :
       queries' = Append(queries,
         Query("prev_register", regnum,
               microblaze_frame_prev_register(this_cache', regnum), NoId, -1))
  /\ UNCHANGED <<scanvars, restvars>>

FrameBaseAddress ==
  /\ Len(queries) < MaxCalls
  /\ GetCache
  /\ queries' = Append(queries,
       Query("base_address", -1, -1, NoId,
             microblaze_frame_base_address(this_cache')))
  /\ UNCHANGED <<scanvars, restvars>>

NextFrame ==
  \/ FrameThisId
  \/ FramePrevRegister
  \/ FrameBaseAddress

SpecFrame == InitFrame /\ [][NextFrame]_vars

\* ------------------------------------------ return-value adapter behaviour
InitAbi ==
  /\ \E b \in RegInitBytes :
       regcache = [r \in RetRegs |-> [i \in 1 .. MICROBLAZE_REGISTER_SIZE |-> b]]
  /\ valbuf = <<>>
  /\ stored = NoStore
  /\ stores = 0
  /\ abi_last = AbiCall("none", -1, "none")
  /\ ErrorsIdle
  /\ ScanIdle
  /\ FrameIdle
  /\ DwarfIdle
  /\ UnwindIdle
  /\ ArchIdle

\* microblaze_return_value with a write buffer.
StoreReturnValue ==
  /\ stores < MaxStores
  /\ stores' = stores + 1
  /\ \E len \in TypeLens :
       \E v \in ByteStrings(len) :
         LET r == microblaze_store_return_value(len, v, regcache)
         IN /\ regcache' = r.regcache
            /\ stored' = IF r.outcome = "ok" THEN [len |-> len, val |-> v]
                         ELSE stored
            /\ abi_last' = AbiCall("store", len, r.outcome)
            /\ valbuf' = <<>>
  /\ UNCHANGED <<scanvars, framevars, dwvars, unwvars, archvars, errvars>>

\* microblaze_return_value with a read buffer.
ExtractReturnValue ==
  /\ \E len \in TypeLens :
       LET r == microblaze_extract_return_value(len, regcache, ReadBuf(len))
       IN /\ valbuf' = r.valbuf
          /\ abi_last' = AbiCall("extract", len, r.outcome)
          /\ UNCHANGED <<regcache, stored, stores>>
  /\ UNCHANGED <<scanvars, framevars, dwvars, unwvars, archvars, errvars>>

NextAbi ==
  \/ StoreReturnValue
  \/ ExtractReturnValue

SpecAbi == InitAbi /\ [][NextAbi]_vars

\* ------------------------------------------------ register map behaviour
InitDwarf ==
  /\ DwarfIdle
  /\ ErrorsIdle
  /\ ScanIdle
  /\ FrameIdle
  /\ AbiIdle
  /\ UnwindIdle
  /\ ArchIdle

Dwarf2RegToRegnum ==
  /\ \E reg \in DwarfRegs :
       dw_last' \in microblaze_dwarf2_reg_to_regnum(reg)
  /\ UNCHANGED <<scanvars, framevars, abivars, unwvars, archvars, errvars>>

NextDwarf == Dwarf2RegToRegnum

SpecDwarf == InitDwarf /\ [][NextDwarf]_vars

\* --------------------------------------------------- unwind pc behaviour
InitUnwind ==
  /\ UnwindIdle
  /\ ErrorsIdle
  /\ ScanIdle
  /\ FrameIdle
  /\ AbiIdle
  /\ DwarfIdle
  /\ ArchIdle

UnwindPc ==
  /\ \E level \in FrameLevels :
       \E raw \in RawPcs :
         unw_last' = UnwindCall(level, raw, microblaze_unwind_pc(level, raw))
  /\ UNCHANGED <<scanvars, framevars, abivars, dwvars, archvars, errvars>>

NextUnwind == UnwindPc

SpecUnwind == InitUnwind /\ [][NextUnwind]_vars

\* ------------------------------------------------- gdbarch init behaviour
InitArch ==
  /\ ArchIdle
  /\ ErrorsIdle
  /\ ScanIdle
  /\ FrameIdle
  /\ AbiIdle
  /\ DwarfIdle
  /\ UnwindIdle

\* gdbarch_find_by_info calling microblaze_gdbarch_init and adding a new
\* architecture to the list of candidates.
GdbarchInit ==
  /\ inits < MaxInits
  /\ inits' = inits + 1
  /\ \E t \in Tdescs :
       LET r == microblaze_gdbarch_init(t, arches)
       IN /\ arch_last' = ArchCall(t, r)
          /\ arches' = IF r = "new" THEN arches \cup {t} ELSE arches
  /\ UNCHANGED <<scanvars, framevars, abivars, dwvars, unwvars, errvars>>

NextArch == GdbarchInit

SpecArch == InitArch /\ [][NextArch]_vars

\* ----------------------------------------------- gold: Errors behaviour
OtherIdle ==
  /\ ScanIdle
  /\ FrameIdle
  /\ AbiIdle
  /\ DwarfIdle
  /\ UnwindIdle
  /\ ArchIdle

InitErrors == ErrorsStart(Threads, MaxReports, Calls) /\ OtherIdle

InitUndefined == ErrorsStart({1}, MaxUndefined, UndefinedCalls) /\ OtherIdle

NotErrors == <<scanvars, framevars, abivars, dwvars, unwvars, archvars>>

Config == <<threads, quota, opset>>

\* A thread enters error, warning or undefined_symbol; error and warning
\* print their message first.
BeginCall ==
  /\ ncalls < quota
  /\ \E t \in threads :
       /\ th[t].pc = "idle"
       /\ \E c \in opset :
            th' = [th EXCEPT ![t] = [ThreadIdle EXCEPT !.pc = "init_lock",
                                                       !.fn = c.fn,
                                                       !.sym = c.sym]]
  /\ ncalls' = ncalls + 1
  /\ UNCHANGED <<Config, lock_, locks_made, holder, error_count_,
                 warning_count_, undefined_symbols_, errors_reported,
                 warnings_reported, undef_calls, undef_printed, NotErrors>>

\* initialize_lock: if (this->lock_ == NULL)
InitializeLockTest ==
  /\ \E t \in threads :
       /\ th[t].pc = "init_lock"
       /\ th' = [th EXCEPT ![t].pc = IF lock_ = 0 THEN "new_lock" ELSE "hold"]
  /\ UNCHANGED <<Config, lock_, locks_made, holder, error_count_,
                 warning_count_, undefined_symbols_, ncalls, errors_reported,
                 warnings_reported, undef_calls, undef_printed, NotErrors>>

\* initialize_lock: this->lock_ = new Lock
InitializeLockNew ==
  /\ \E t \in threads :
       /\ th[t].pc = "new_lock"
       /\ th' = [th EXCEPT ![t].pc = "hold"]
  /\ locks_made' = locks_made + 1
  /\ lock_' = locks_made + 1
  /\ UNCHANGED <<Config, holder, error_count_, warning_count_,
                 undefined_symbols_, ncalls, errors_reported,
                 warnings_reported, undef_calls, undef_printed, NotErrors>>

\* Hold_lock h (*this->lock_)
HoldLock ==
  /\ \E t \in threads :
       /\ th[t].pc = "hold"
       /\ holder[lock_] = 0
       /\ holder' = [holder EXCEPT ![lock_] = t]
       /\ th' = [th EXCEPT ![t].lock = lock_,
                           ![t].pc = IF th[t].fn = "undefined_symbol"
                                     THEN "bump" ELSE "read"]
  /\ UNCHANGED <<Config, lock_, locks_made, error_count_, warning_count_,
                 undefined_symbols_, ncalls, errors_reported,
                 warnings_reported, undef_calls, undef_printed, NotErrors>>

\* undefined_symbol: the per-symbol counter and the test against the limit.
BumpUndefined ==
  /\ \E t \in threads :
       /\ th[t].pc = "bump"
       /\ undefined_symbols_' =
            [undefined_symbols_ EXCEPT ![th[t].sym] = @ + 1]
       /\ th' = IF SuppressUndefined(undefined_symbols_'[th[t].sym])
                THEN [th EXCEPT ![t].report = FALSE, ![t].pc = "unlock"]
                ELSE [th EXCEPT ![t].pc = "read"]
  /\ UNCHANGED <<Config, lock_, locks_made, holder, error_count_,
                 warning_count_, ncalls, errors_reported, warnings_reported,
                 undef_calls, undef_printed, NotErrors>>

\* ++this->error_count_ / ++this->warning_count_: the read
ReadCount ==
  /\ \E t \in threads :
       /\ th[t].pc = "read"
       /\ th' = [th EXCEPT ![t].tmp = IF th[t].fn = "warning"
                                      THEN warning_count_ ELSE error_count_,
                           ![t].pc = "write"]
  /\ UNCHANGED <<Config, lock_, locks_made, holder, error_count_,
                 warning_count_, undefined_symbols_, ncalls, errors_reported,
                 warnings_reported, undef_calls, undef_printed, NotErrors>>

\* ++this->error_count_ / ++this->warning_count_: the write
WriteCount ==
  /\ \E t \in threads :
       /\ th[t].pc = "write"
       /\ warning_count_' = IF th[t].fn = "warning"
                            THEN th[t].tmp + 1 ELSE warning_count_
       /\ error_count_' = IF th[t].fn = "warning"
                          THEN error_count_ ELSE th[t].tmp + 1
       /\ th' = [th EXCEPT ![t].pc = "unlock"]
  /\ UNCHANGED <<Config, lock_, locks_made, holder, undefined_symbols_,
                 ncalls, errors_reported, warnings_reported, undef_calls,
                 undef_printed, NotErrors>>

\* The end of the Hold_lock scope and the return; undefined_symbol prints
\* its message after the scope unless it returned inside it.
Unlock ==
  /\ \E t \in threads :
       /\ th[t].pc = "unlock"
       /\ holder' = [holder EXCEPT ![th[t].lock] = 0]
       /\ errors_reported' =
            IF th[t].fn = "error" \/ (th[t].fn = "undefined_symbol" /\ th[t].report)
            THEN errors_reported + 1 ELSE errors_reported
       /\ warnings_reported' =
            IF th[t].fn = "warning" THEN warnings_reported + 1
            ELSE warnings_reported
       /\ undef_calls' =
            IF th[t].fn = "undefined_symbol"
            THEN [undef_calls EXCEPT ![th[t].sym] = @ + 1] ELSE undef_calls
       /\ undef_printed' =
            IF th[t].fn = "undefined_symbol" /\ th[t].report
            THEN [undef_printed EXCEPT ![th[t].sym] = @ + 1] ELSE undef_printed
       /\ th' = [th EXCEPT ![t] = ThreadIdle]
  /\ UNCHANGED <<Config, lock_, locks_made, error_count_, warning_count_,
                 undefined_symbols_, ncalls, NotErrors>>

NextErrors ==
  \/ BeginCall
  \/ InitializeLockTest
  \/ InitializeLockNew
  \/ HoldLock
  \/ BumpUndefined
  \/ ReadCount
  \/ WriteCount
  \/ Unlock

SpecErrors == InitErrors /\ [][NextErrors]_vars

SpecUndefined == InitUndefined /\ [][NextErrors]_vars

\* ------------------------------------------------------- shared notions
Finished == phase \in {"done", "returned"}

\* The decoded instruction the scanner sees at a read address.
InsnAt(a) == microblaze_decode_insn(microblaze_fetch_instruction(mem[a]))

\* Address of the i-th instruction scanned by the loop.
ScanAddr(i) == func_addr + (i - 1) * INST_WORD_SIZE

StoreKinds == {"spill_sp", "spill_reg", "also_spill_reg", "spill_reg_fp"}

\* The scan limit as the interface states it: min (requested pc, function end).
ScanLimit == IF current_pc < func_end THEN current_pc ELSE func_end

\* The scan starts with stack-adjust(-N), N > 0, then spill-register(r, imm).
BeginsAdjustSpill ==
  /\ Len(kinds) >= 2
  /\ kinds[1] = "update_sp" /\ InsnAt(ScanAddr(1)).imm < 0
  /\ kinds[2] = "spill_reg"

\* Some instruction scanned after the second one stores register r again.
StoredAgain(r) ==
  \E i \in 3 .. Len(kinds) :
    kinds[i] \in StoreKinds /\ InsnAt(ScanAddr(i)).rd = r

\* C1 (as claimed): every scan that begins with stack-adjust(-N), N > 0, and
\* spill-register(r, N-k) ends with frame_size = N, is_frameless = false and
\* saved_register_offset[r] = -k.
C1_AdjustSpillAlways ==
  (Finished /\ BeginsAdjustSpill) =>
    LET N == 0 - InsnAt(ScanAddr(1)).imm
        s == InsnAt(ScanAddr(2))
    IN /\ cache.framesize = N
       /\ cache.frameless_p = 0
       /\ cache.register_offsets[s.rd] = s.imm - N

\* C1 (amended): after stack-adjust(-N), N > 0, and spill-register(r, N-k)
\* have been scanned, frame_size = N and is_frameless = false for the rest of
\* the scan, and saved_register_offset[r] = -k as long as no later scanned
\* instruction stores r again.
C1_AdjustSpill ==
  BeginsAdjustSpill =>
    LET N == 0 - InsnAt(ScanAddr(1)).imm
        s == InsnAt(ScanAddr(2))
    IN /\ cache.framesize = N
       /\ cache.frameless_p = 0
       /\ (~StoredAgain(s.rd) => cache.register_offsets[s.rd] = s.imm - N)

C1_Witness ==
  /\ Finished /\ BeginsAdjustSpill /\ Len(kinds) = 3
  /\ InsnAt(ScanAddr(1)).imm = -16
  /\ InsnAt(ScanAddr(2)).rd = 15
  /\ cache.register_offsets[15] = -12
  /\ kinds[3] = "spill_reg"

\* The instruction at the function entry is rtsd or rtid.
EntryIsReturn == InsnAt(pc).op \in {"rtsd", "rtid"}

\* C2: when the instruction at the function entry is a Return, the scanner
\* returns at once: prologue end = entry, frame_size = 0, frameless, frame
\* pointer = stack pointer, no register offset changed, nothing else read.
C2_ReturnAtEntry ==
  (pc \in DOMAIN mem /\ EntryIsReturn) =>
    /\ Finished
    /\ ret = pc /\ pc = func_addr
    /\ cache.framesize = 0
    /\ cache.frameless_p = 1
    /\ cache.fp_regnum = MICROBLAZE_SP_REGNUM
    /\ cache.register_offsets = cache0.register_offsets
    /\ kinds = <<>>
    /\ fetches = {[site |-> "entry", at |-> pc]}

C2_Witness ==
  /\ phase = "done" /\ caller = "direct"
  /\ pc \in DOMAIN mem /\ mem[pc] = W_RTSD
  /\ current_pc > pc + INST_WORD_SIZE
  /\ ret = FuncStart
  /\ cache0.framesize # 0

\* The loop is about to look at a stack adjust whose immediate differs from
\* the one of the first stack adjust processed.
SecondAdjustStep ==
  /\ phase = "loop" /\ addr < stop
  /\ Len(adjusts) >= 1
  /\ addr \in DOMAIN mem'
  /\ LET d == microblaze_decode_insn(microblaze_fetch_instruction(mem'[addr]))
     IN IS_UPDATE_SP(d.op, d.rd, d.ra) /\ d.imm # adjusts[1]

FirstAdjustKept ==
  (Len(adjusts) >= 1 /\ adjusts[1] # 0)
    => (cache'.framesize = 0 - adjusts[1] /\ adjusts' = adjusts)

StoppedScanKeepsSummary ==
  phase \in {"post", "done", "returned"} => cache' = cache

SecondAdjustStopsNonzero ==
  (SecondAdjustStep /\ adjusts[1] # 0) => (phase' = "post" /\ cache' = cache)

C4_EndIsFinalAddress ==
  (Finished /\ pc \in DOMAIN mem /\ ~EntryIsReturn /\ kinds # <<>>) =>
    IF ~broke /\ ~tentative_set
    THEN (save_hidden_pointer_found = 0 => ret = addr)
    ELSE ret = prologue_end_addr

\* C5: when the last instruction scanned before the scan limit is a
\* save-hidden-pointer instruction, the returned prologue end is the address
\* of that instruction (one instruction width before its successor).
C5_HiddenPointerRetract ==
  (Finished /\ ~broke /\ Len(kinds) >= 1
     /\ kinds[Len(kinds)] = "save_hidden_ptr") =>
    ret = addr - INST_WORD_SIZE

\* C6: microblaze_skip_prologue returns an address that is at least the
\* prologue end of the full-function scan and at least the start address it
\* was given.
C6_SkipNotEarlier ==
  phase = "returned" => (skip_ret >= ret /\ skip_ret >= start_pc.given)

C6_Witness ==
  /\ phase = "returned"
  /\ start_pc.cur > start_pc.given
  /\ ret > start_pc.cur
  /\ skip_ret = ret

UnreadableEntryStep ==
  (phase = "entry" /\ pc \in DOMAIN mem' /\ mem'[pc] = Unreadable)
    => (phase' = "loop" /\ cache' = cache)

UnreadableLoopStep ==
  (phase = "loop" /\ addr < stop /\ addr \in DOMAIN mem'
     /\ mem'[addr] = Unreadable)
    => (/\ kinds' = Append(kinds, "other")
        /\ phase' = "loop"
        /\ addr' = addr + INST_WORD_SIZE
        /\ cache' = cache)

\* C7: an unreadable address is scanned as the all-zero word: it is not a
\* Return at the entry, it takes the 'other' branch, it does not stop the
\* scan and it leaves frame_size, frame pointer, offsets and is_frameless
\* alone.
C7_UnreadableIsZeroWord ==
  [][UnreadableEntryStep /\ UnreadableLoopStep]_vars

C7_Witness ==
  /\ Finished
  /\ Len(kinds) = 3
  /\ mem[ScanAddr(2)] = Unreadable
  /\ kinds[1] = "update_sp" /\ kinds[3] = "spill_reg"
  /\ cache.framesize = 8

\* Number of loop iterations that ran to their end (continue).
Continued == IF broke THEN Len(kinds) - 1 ELSE Len(kinds)

\* C8: the scan address is the entry plus one instruction width per
\* completed iteration, and the loop performs at most
\* ceil ((scan_limit - entry) / 4) iterations.
C8_BoundedScan ==
  (phase \in {"loop", "post"} \/ (Finished /\ kinds # <<>>)) =>
    /\ addr = func_addr + Continued * INST_WORD_SIZE
    /\ ScanLimit >= func_addr
    /\ Len(kinds) * INST_WORD_SIZE < (ScanLimit - func_addr) + INST_WORD_SIZE

C8_Witness ==
  /\ Finished /\ ~broke
  /\ current_pc = FuncStart + INST_WORD_SIZE + 2
  /\ Len(kinds) = 2

\* C9 (as claimed): every fetch of the scanner, the entry check included, is
\* at an address >= the function entry and < the scan limit.
C9_FetchesBelowLimit ==
  \A f \in fetches : f.at >= func_addr /\ f.at < ScanLimit

\* C9 (amended): every fetch of the scan loop is at an address >= the
\* function entry and < the scan limit; the entry check reads the function
\* entry itself, which is <= the scan limit.
C9_LoopFetchesBelowLimit ==
  \A f \in fetches :
    IF f.site = "loop"
    THEN f.at >= func_addr /\ f.at < ScanLimit
    ELSE f.at = func_addr /\ f.at <= ScanLimit

C9_Witness ==
  /\ Finished
  /\ current_pc = FuncStart + 2 * INST_WORD_SIZE
  /\ [site |-> "loop", at |-> FuncStart + INST_WORD_SIZE] \in fetches
  /\ [site |-> "entry", at |-> FuncStart] \in fetches
  /\ Cardinality(fetches) = 3

\* C10: microblaze_frame_this_id leaves the identity unset exactly when the
\* cache's base is 0 and otherwise sets it to the identity built from
\* (base, pc); every call on the frame handle yields the same result,
\* whatever other queries come between.
C10_ThisIdStable ==
  \A i \in DOMAIN queries :
    queries[i].op = "this_id" =>
      /\ (queries[i].id = NoId) <=> (this_cache.base = 0)
      /\ this_cache.base # 0 =>
           queries[i].id = frame_id_build(this_cache.base, this_cache.pc)
      /\ \A j \in DOMAIN queries :
           queries[j].op = "this_id" => queries[j].id = queries[i].id

C10_Witness ==
  /\ Len(queries) >= 3
  /\ queries[1].op = "this_id"
  /\ queries[2].op = "prev_register"
  /\ queries[3].op = "this_id"
  /\ queries[3].id = NoId
  /\ this_cache.base = 0
  /\ this_cache.pc = FuncStart

\* C11: the first call of microblaze_frame_cache on a frame handle allocates
\* the cache, stores it in the slot, sets every register offset to -1 and
\* records pc; every later call, whatever callbacks come between, leaves the
\* cache in the slot as it is and allocates nothing.
FirstCacheCall ==
  /\ allocs' = allocs + 1
  /\ ~this_cache'.null
  /\ \A r \in Regs : this_cache'.register_offsets[r] = -1
  /\ this_cache'.pc = frame_pc
  /\ this_cache'.base = 0
  /\ this_cache'.framesize = 0
  /\ this_cache'.frameless_p = 1

LaterCacheCall ==
  /\ this_cache' = this_cache
  /\ allocs' = allocs

CacheCallStep == IF this_cache.null THEN FirstCacheCall ELSE LaterCacheCall

C11_FrameCacheIdempotent == [][CacheCallStep]_vars

C11_Witness ==
  /\ Len(queries) = MaxCalls
  /\ \E i, j, k \in DOMAIN queries :
       /\ queries[i].op = "this_id"
       /\ queries[j].op = "prev_register"
       /\ queries[k].op = "base_address"
  /\ allocs = 1
  /\ this_cache.pc = FuncStart + INST_WORD_SIZE
  /\ this_cache.register_offsets[MICROBLAZE_PC_REGNUM] = -1

\* C12: the first unwinder query on a frame (frame_prev_register,
\* frame_base_address or frame_this_id) runs the prologue scanner for the
\* frame, and over any sequence of queries the scanner runs at most once.
C12_LazyScanOnQuery ==
  /\ queries = <<>> => scans = 0
  /\ queries # <<>> => scans = 1

\* C13: frame_prev_register on a frameless cache looks up register 15 for
\* the program counter and register 1 for the stack pointer, and the
\* requested register for every other id; on a cache that is not frameless
\* it looks up the requested register for every id.
RedirectFrameless(regnum) ==
  CASE regnum = MICROBLAZE_PC_REGNUM -> 15
    [] regnum = MICROBLAZE_SP_REGNUM -> 1
    [] OTHER -> regnum

C13_PrevRegisterRedirect ==
  /\ \A i \in DOMAIN queries :
       queries[i].op = "prev_register" =>
         queries[i].lookup =
           IF this_cache.frameless_p # 0
           THEN RedirectFrameless(queries[i].regnum)
           ELSE queries[i].regnum
  /\ ~this_cache.null =>
       \A regnum \in RegQueries :
         /\ microblaze_frame_prev_register(
              [this_cache EXCEPT !.frameless_p = 0], regnum) = regnum
         /\ microblaze_frame_prev_register(
              [this_cache EXCEPT !.frameless_p = 1], regnum)
              = RedirectFrameless(regnum)

C13_Witness ==
  /\ Len(queries) >= 3
  /\ queries[1] = Query("prev_register", MICROBLAZE_PC_REGNUM, 15, NoId, -1)
  /\ queries[2] = Query("prev_register", MICROBLAZE_SP_REGNUM, 1, NoId, -1)
  /\ queries[3] = Query("prev_register", 3, 3, NoId, -1)
  /\ this_cache.frameless_p = 1

\* C14: a value of length 1, 2, 4 or 8 stored by
\* microblaze_store_return_value and extracted with the same length by
\* microblaze_extract_return_value comes back byte for byte; for length 8
\* the first four bytes are in the return register and the last four in the
\* next register.
RoundTripCase ==
  /\ abi_last.op = "extract"
  /\ abi_last.len \in SupportedLens
  /\ stored.len = abi_last.len

C14_RoundTrip ==
  RoundTripCase =>
    /\ abi_last.outcome = "ok"
    /\ valbuf = stored.val
    /\ stored.len = 8 =>
         /\ regcache[MICROBLAZE_RETVAL_REGNUM] = SubSeq(stored.val, 1, 4)
         /\ regcache[MICROBLAZE_RETVAL_REGNUM + 1] = SubSeq(stored.val, 5, 8)

C14_Witness ==
  /\ RoundTripCase
  /\ stored.val = <<1, 2, 1, 1, 2, 2, 1, 2>>
  /\ valbuf = <<1, 2, 1, 1, 2, 2, 1, 2>>
  /\ regcache[MICROBLAZE_RETVAL_REGNUM + 1] = <<2, 2, 1, 2>>

\* C15: the value extracted for a type of length 1 (resp. 2) depends only
\* on the last 1 (resp. 2) bytes of the return register: any other register
\* state that agrees on those bytes gives the same value.
AltRegFiles ==
  {[r \in RetRegs |-> IF r = MICROBLAZE_RETVAL_REGNUM THEN a ELSE b] :
     a \in [1 .. MICROBLAZE_REGISTER_SIZE -> ByteVals \cup RegInitBytes],
     b \in {<<0, 0, 0, 0>>, <<1, 2, 9, 1>>, <<2, 2, 2, 2>>}}

LastBytes(reg, n) ==
  SubSeq(reg, MICROBLAZE_REGISTER_SIZE - n + 1, MICROBLAZE_REGISTER_SIZE)

SmallExtractCase ==
  /\ abi_last.op = "extract"
  /\ abi_last.len \in {1, 2}

C15_SmallExtractLowBytesOnly ==
  SmallExtractCase =>
    /\ valbuf = LastBytes(regcache[MICROBLAZE_RETVAL_REGNUM], abi_last.len)
    /\ \A rc \in AltRegFiles :
         LastBytes(rc[MICROBLAZE_RETVAL_REGNUM], abi_last.len)
           = LastBytes(regcache[MICROBLAZE_RETVAL_REGNUM], abi_last.len)
         => microblaze_extract_return_value(abi_last.len, rc, <<>>).valbuf
              = valbuf

C15_Witness ==
  /\ SmallExtractCase
  /\ abi_last.len = 1
  /\ regcache[MICROBLAZE_RETVAL_REGNUM] = <<1, 2, 1, 2>>
  /\ valbuf = <<2>>

\* C17: extraction for a type length other than 1, 2, 4 or 8 ends in an
\* internal error and leaves the output buffer as it was; a store of a
\* length greater than 4 other than 8 fails its assertion and leaves every
\* register as it was.
ExtractStep == stores' = stores
StoreStep == stores' = stores + 1

UnsupportedExtractStep ==
  (ExtractStep /\ abi_last'.len \notin SupportedLens) =>
    /\ abi_last'.outcome = "internal_error"
    /\ valbuf' = ReadBuf(abi_last'.len)
    /\ regcache' = regcache

UnsupportedStoreStep ==
  (StoreStep /\ abi_last'.len > 4 /\ abi_last'.len # 8) =>
    /\ abi_last'.outcome = "assert_fail"
    /\ regcache' = regcache

UnsupportedSizeStep == UnsupportedExtractStep /\ UnsupportedStoreStep

C17_UnsupportedSizeFails == [][UnsupportedSizeStep]_vars

C17_Witness ==
  /\ abi_last = AbiCall("extract", 3, "internal_error")
  /\ valbuf = <<7, 7, 7>>
  /\ stored = [len |-> 2, val |-> <<1, 2>>]

\* C16: microblaze_dwarf2_reg_to_regnum gives -1 for every register number
\* below 0 and every one from 78 on, never reads dwarf2_to_reg_map outside
\* its 78 entries, and gives the table entry for 0 <= reg < 78.
C16_OutOfRangeUnmapped ==
  dw_last.called =>
    /\ ~dw_last.oob
    /\ dw_last.result =
         IF dw_last.reg >= 0 /\ dw_last.reg < Dwarf2MapEntries
         THEN (IF dw_last.reg <= 31 THEN dw_last.reg
               ELSE IF dw_last.reg = 67 THEN 33 ELSE -1)
         ELSE -1

\* C18: microblaze_gdbarch_init returns no architecture when the target
\* description has registers and the core feature is absent or a required
\* register fails validation (a core register, or rslr/rshr when the
\* stack-protect feature is present).
InvalidTdesc(t) ==
  /\ ~t.null
  /\ t.has_registers
  /\ \/ ~t.core
     \/ t.core_bad # {}
     \/ t.stack_protect /\ ~(t.rslr_ok /\ t.rshr_ok)

C18_InvalidTdescRejected ==
  (arch_last.called /\ InvalidTdesc(arch_last.tdesc)) =>
    arch_last.result = "NULL"

\* C19: microblaze_unwind_pc gives the raw unwound pc when the frame unwound
\* from is the sentinel (level < 0) and the raw value plus 8 for every other
\* frame.
C19_UnwindPcAdjust ==
  unw_last.called =>
    unw_last.pc = IF unw_last.level < 0 THEN unw_last.raw
                  ELSE (unw_last.raw + 8) % AddrMod

C19_Witness ==
  /\ unw_last.called
  /\ unw_last.level = 0
  /\ unw_last.raw = FuncStart
  /\ unw_last.pc = FuncStart + 8

\* C20: at an instruction that matches no prologue pattern the scan stops
\* exactly when the top six bits of the word are 0x26, 0x27, 0x2d, 0x2e or
\* 0x2f and goes on to the next address for every other value, 0x2c
\* included; once the scan has stopped the scanner fetches nothing more and
\* the cache stays as it is.
StopOpcodes == {38, 39, 45, 46, 47}

OtherInsnStep ==
  /\ Len(kinds') = Len(kinds) + 1
  /\ kinds'[Len(kinds')] = "other"

CtrlFlowStep ==
  OtherInsnStep =>
    /\ broke' <=> (mem'[addr].opc \in StopOpcodes)
    /\ broke' => (addr' = addr /\ phase' = "post")
    /\ ~broke' => (addr' = addr + INST_WORD_SIZE /\ phase' = "loop")

AfterStopStep ==
  broke => (cache' = cache /\ fetches' = fetches /\ kinds' = kinds)

CtrlFlowStopStep == CtrlFlowStep /\ AfterStopStep

C20_ControlFlowStops == [][CtrlFlowStopStep]_vars

C20_Witness ==
  /\ Finished
  /\ broke
  /\ kinds = <<"other", "other">>
  /\ mem[func_addr].opc = 44
  /\ mem[func_addr + INST_WORD_SIZE].opc = 46
  /\ stop > addr + INST_WORD_SIZE
  /\ cache.framesize = 0

\* The scan ran its loop over at least one non-stack instruction and did not
\* end with a save-hidden-pointer pending.
OtherIndexes == {i \in DOMAIN kinds : kinds[i] = "other"}

ScanWithOther ==
  /\ Finished
  /\ OtherIndexes # {}
  /\ save_hidden_pointer_found = 0

MinOf(S) == CHOOSE x \in S : \A y \in S : x <= y
MaxOf(S) == CHOOSE x \in S : \A y \in S : x >= y

\* C21 (as claimed): the prologue end returned is the address of the first
\* non-stack instruction of the scanned sequence, whatever is scanned after
\* it.
C21_EndIsFirstOther ==
  ScanWithOther => ret = ScanAddr(MinOf(OtherIndexes))

\* frame_size is still 0 when the i-th instruction is scanned.
NoFrameBefore(i) ==
  \A j \in 1 .. (i - 1) :
    kinds[j] = "update_sp" => InsnAt(ScanAddr(j)).imm = 0

\* The i-th instruction scanned clears the non-stack flag: a stack adjust
\* that is processed, or another prologue instruction while frame_size is 0.
ClearsFlag(i) ==
  \/ kinds[i] = "update_sp" /\ ~(broke /\ i = Len(kinds))
  \/ kinds[i] \notin {"update_sp", "other"} /\ NoFrameBefore(i)

\* The i-th instruction is a non-stack instruction scanned with the flag
\* clear.
LeadingOther(i) ==
  /\ kinds[i] = "other"
  /\ \A j \in 1 .. (i - 1) :
       kinds[j] = "other" => \E r \in (j + 1) .. (i - 1) : ClearsFlag(r)

\* C21: the prologue end returned is the address of the last non-stack
\* instruction that was scanned with the non-stack flag clear; prologue
\* instructions scanned once frame_size is nonzero and further non-stack
\* instructions after it do not move it.
C21_EndIsLeadingOther ==
  ScanWithOther =>
    ret = ScanAddr(MaxOf({i \in OtherIndexes : LeadingOther(i)}))

C21_Witness ==
  /\ ScanWithOther
  /\ kinds = <<"update_sp", "other", "spill_reg">>
  /\ InsnAt(ScanAddr(1)).imm = -8
  /\ ret = ScanAddr(2)

\* The destination of the most recent frame-pointer setup scanned, the stack
\* pointer when there is none.
SetupIndexes == {i \in DOMAIN kinds : kinds[i] = "setup_fp"}

FpBySetups ==
  IF SetupIndexes = {} THEN MICROBLAZE_SP_REGNUM
  ELSE InsnAt(ScanAddr(MaxOf(SetupIndexes))).rd

\* The loop scans one more instruction.
ScansOne == Len(kinds') = Len(kinds) + 1

\* The instruction scanned by the step is a store of a register other than
\* the stack pointer, based on a register other than r0 and r1.
FpStoreStep ==
  /\ ScansOne
  /\ mem'[addr].opc \in {54, 62}
  /\ mem'[addr].rd # REG_SP
  /\ mem'[addr].ra \notin {0, REG_SP}

FpStoreRecorded ==
  LET d == microblaze_decode_insn(mem'[addr])
  IN IF d.ra = FpBySetups
     THEN /\ kinds'[Len(kinds')] = "spill_reg_fp"
          /\ cache'.register_offsets =
               [cache.register_offsets EXCEPT ![d.rd] = d.imm - cache.framesize]
     ELSE /\ kinds'[Len(kinds')] = "other"
          /\ cache' = cache

FramePointerStep ==
  /\ (phase = "loop" \/ phase = "post") => cache.fp_regnum = FpBySetups
  /\ FpStoreStep => FpStoreRecorded

\* C22: the frame pointer register is the stack pointer until a
\* frame-pointer setup is scanned and the destination of the most recent
\* setup afterwards; a store based on a register other than r0 and the stack
\* pointer is recorded as a spill at immediate - frame_size when that
\* register is the frame pointer at the time, and is a non-stack instruction
\* that records nothing when the setup has not been scanned yet.
C22_FramePointerTracking == [][FramePointerStep]_vars

C22_Witness ==
  /\ Finished
  /\ kinds = <<"other", "setup_fp", "spill_reg_fp">>
  /\ mem[func_addr] = W_SWI(15, 19, 8)
  /\ mem[func_addr + INST_WORD_SIZE] = W_ADDK(19, 1, 0)
  /\ mem[func_addr + 2 * INST_WORD_SIZE] = W_SWI(15, 19, 8)
  /\ cache.fp_regnum = 19
  /\ cache.register_offsets[15] = 8

\* The scanner has initialized the cache and has not returned, or has
\* returned after reading code.
InScan ==
  \/ phase \in {"entry", "loop", "post"}
  \/ Finished /\ fetches # {}

\* The word is addik or addi with destination and source r1.
AdjustWord(w) == w.opc \in {8, 12} /\ w.rd = REG_SP /\ w.ra = REG_SP

\* The stack adjusts among the instructions the loop has processed.
ProcessedAdjusts ==
  {i \in 1 .. Continued :
     AdjustWord(microblaze_fetch_instruction(mem[ScanAddr(i)]))}

FramelessIffNoAdjust ==
  InScan =>
    /\ (cache.frameless_p = 1) <=> (ProcessedAdjusts = {})
    /\ cache.frameless_p \in {0, 1}
    /\ cache.frameless_p = 1 => cache.framesize = 0

FramelessStep ==
  /\ FramelessIffNoAdjust'
  /\ (InScan /\ cache.frameless_p = 0) => cache'.frameless_p = 0

\* C23: in every state of a scan is_frameless is true exactly when no stack
\* adjust has been processed so far, frame_size is 0 whenever is_frameless
\* is true, and is_frameless never goes from false back to true.
C23_FramelessUntilAdjust == [][FramelessStep]_vars

C23_Witness ==
  /\ Finished
  /\ kinds = <<"other", "update_sp", "spill_reg">>
  /\ mem[func_addr + INST_WORD_SIZE] = W_ADDI_SP(-16)
  /\ cache.frameless_p = 0
  /\ cache.framesize = 16

\* C24: in every state of a scan frame_size >= 0, and it is 0
\* until the first stack adjust has been processed and nonzero afterwards.
C24_FrameSizeUnsigned ==
  InScan =>
    /\ cache.framesize >= 0
    /\ (cache.framesize = 0) <=> (adjusts = <<>>)

\* C25: for every frame handle and every sequence of frame_this_id,
\* frame_prev_register and frame_base_address calls the frame's cache has
\* base 0, frame_size 0, is_frameless true and every register offset -1;
\* frame_this_id never assigns an identity, frame_base_address returns 0 and
\* frame_prev_register takes the frameless branch.
CacheNeverFilled ==
  ~this_cache.null =>
    /\ this_cache.base = 0
    /\ this_cache.framesize = 0
    /\ this_cache.frameless_p = 1
    /\ \A r \in Regs : this_cache.register_offsets[r] = -1

QueryOnEmptyCache(q) ==
  CASE q.op = "this_id" -> q.id = NoId
    [] q.op = "base_address" -> q.base = 0
    [] q.op = "prev_register" ->
         q.lookup = (IF q.regnum = MICROBLAZE_PC_REGNUM THEN 15 ELSE q.regnum)

AllReturned == \A t \in threads : th[t].pc = "idle"

InCriticalSection(t) == th[t].pc \in {"bump", "read", "write", "unlock"}

\* C26: under every interleaving of threads calling error, warning and
\* undefined_symbol exactly one Lock is ever installed, every increment of
\* a counter is made while holding that Lock, and after all calls have
\* returned error_count_ and warning_count_ equal the numbers of errors and
\* warnings reported.
C26_OneLockNoLostUpdate ==
  /\ locks_made <= 1
  /\ \A t \in threads :
       InCriticalSection(t) => (th[t].lock = 1 /\ holder[1] = t)
  /\ AllReturned =>
       /\ error_count_ = errors_reported
       /\ warning_count_ = warnings_reported

SumOver(f) == f["a"] + f["b"]

MinInt(x, y) == IF x < y THEN x ELSE y

\* C27: over any sequence of n calls of undefined_symbol for a symbol the
\* number of calls that increment error_count_ and print a message is
\* min (n, max_undefined_error_report - 1); every call increments the
\* symbol's counter, whatever is called for other symbols.
C27_UndefinedReportCap ==
  AllReturned =>
    /\ \A s \in Syms :
         /\ undefined_symbols_[s] = undef_calls[s]
         /\ undef_printed[s] =
              MinInt(undef_calls[s], max_undefined_error_report - 1)
    /\ error_count_ = SumOver(undef_printed)

C27_Witness ==
  /\ AllReturned
  /\ undef_calls["a"] = max_undefined_error_report
  /\ undef_calls["b"] = 1
  /\ undef_printed["a"] = max_undefined_error_report - 1
  /\ error_count_ = max_undefined_error_report

====
